---- MODULE Spec2Model ----
(***************************************************************************)
(* Model of media/js/script.js: the portfolio page's UI controller.        *)
(*                                                                         *)
(* The page is a set of independent event handlers over the DOM.  Each     *)
(* browser event (click, keydown, scroll, animation frame, timer, observer *)
(* callback) is one action; an action runs every listener the event is     *)
(* dispatched to, in dispatch order.                                       *)
(*                                                                         *)
(* The page markup is not part of script.js.  The model fixes the parts    *)
(* of it the handlers read:                                                *)
(*   - .mobile-menu (the toggle) and .nav-links (the menu container) are   *)
(*     siblings; the toggle holds an icon child, the container holds       *)
(*     NumLinks <a> elements and one non-link item;                        *)
(*   - the toggle and the links are focusable; one focusable element       *)
(*     precedes and one follows them in tab order; the toggle sits either  *)
(*     before or after the links (layout);                                 *)
(*   - neither 'active' class is present in the markup.                    *)
(*                                                                         *)
(* The menu/click handlers, the reveal observer and the scroll handlers    *)
(* write disjoint state, so each has a specification of its own (SpecMenu, *)
(* SpecReveal, SpecScroll) over the same variables; window.pageYOffset,    *)
(* which the click handlers only read, is drawn in InitMenu.  The contact  *)
(* form (SpecForm, SpecFormFair), init() and safeExecute (SpecBoot), the   *)
(* ripple overlays (SpecRipple) and the typing effect (SpecTyping) follow  *)
(* the same pattern.  SpecMissing runs the menu, scroll and visibility     *)
(* handlers together on pages where cached elements are missing.           *)
(***************************************************************************)
EXTENDS Integers, Sequences, FiniteSets, TLC

\* ---------------------------------------------------------------- bounds
NumLinks == 2
NumObserved == 3
MaxEntries == 5
MaxEmailLen == 5
MaxSubmits == 2
MaxRipples == 3
MaxTitleLen == 3

\* ------------------------------------------------------ program constants
headerOffset == 80
showThreshold == 300

VARIABLES
    elements,       \* the element cache: which cached nodes are non-null
    navActive,      \* 'active' in elements.navLinks.classList
    menuActive,     \* 'active' in elements.mobileMenu.classList
    ariaExpanded,   \* the toggle's aria-expanded attribute
    focus,          \* document.activeElement
    layout,         \* markup: where the toggle sits in tab order
    pageYOffset,    \* window.pageYOffset
    last,           \* the last click/keydown event and what its listeners did
    hasIO,          \* window.IntersectionObserver exists
    observing,      \* targets the reveal observer currently observes
    visibleClass,   \* elements carrying the reveal class
    inViewport,     \* elements currently intersecting the viewport
    entries,        \* the observer's queued IntersectionObserverEntry records
    classAdds,      \* per element: times the reveal class went absent -> present
    ticking,        \* initScrollEffects' pending-frame flag
    inThrottle,     \* throttle()'s closure flag
    rafPending,     \* requestAnimationFrame callbacks not yet run
    timerPending,   \* throttle's setTimeout callbacks not yet run
    showClass,      \* 'show' in elements.scrollButton.classList
    heroTransform,  \* 10 * the translateY applied to the hero section, -1 if none
    form,           \* the contact form: fields, alerts shown, opacity, timers
    boot,           \* init(): which initializers ran, warnings, the typing timer
    ripple,         \* ripple overlays: attached ones, their timers, the last one made
    typing,         \* the typing effect: title content, position, pending timer
    page            \* document.hidden, the hero's will-change, uncaught TypeErrors

menuVars == <<navActive, menuActive, ariaExpanded, focus, layout, last>>
revealVars == <<hasIO, observing, visibleClass, inViewport, entries, classAdds>>
scrollVars == <<ticking, inThrottle, rafPending, timerPending, showClass, heroTransform>>
extVars == <<form, boot, ripple, typing, page>>
vars == <<elements, pageYOffset, menuVars, revealVars, scrollVars, extVars>>

\* ------------------------------------------------------------ the markup
Links == {"link" \o ToString(i) : i \in 1..NumLinks}
LinkSeq == [i \in 1..NumLinks |-> "link" \o ToString(i)]
ClickTargets == {"toggle", "toggleIcon", "navItem", "outside", "anchor"} \cup Links
PageOffsets == {0, 40, 200}
RectTops == {-120, 0, 60, 500}

\* Element.tagName of a click target.
tagName(t) ==
    IF t \in Links \/ t = "anchor" THEN "A"
    ELSE IF t = "toggle" THEN "BUTTON"
    ELSE "SPAN"

\* elements.navLinks.contains(t)
navContains(t) == t \in Links \/ t = "navItem"

\* elements.mobileMenu.contains(t)
menuContains(t) == t \in {"toggle", "toggleIcon"}

\* Targets that exist given which cached nodes are present.
present(t) ==
    /\ navContains(t) => elements.navLinks
    /\ menuContains(t) => elements.mobileMenu

\* Focusable elements in tab order.
tabOrder ==
    LET tg == IF elements.mobileMenu THEN <<"toggle">> ELSE <<>>
        ls == IF elements.navLinks THEN LinkSeq ELSE <<>>
    IN  <<"before">> \o (IF layout = "toggleFirst" THEN tg \o ls ELSE ls \o tg)
            \o <<"after">>

indexOf(seq, x) == CHOOSE i \in 1..Len(seq) : seq[i] = x

\* The browser's default Tab / Shift+Tab focus move.
defaultTab(f, shift) ==
    LET order == tabOrder
        n == Len(order)
    IN  IF f = "body" THEN (IF shift THEN order[n] ELSE order[1])
        ELSE LET i == indexOf(order, f)
             IN  IF shift THEN (IF i = 1 THEN "body" ELSE order[i - 1])
                 ELSE (IF i = n THEN "body" ELSE order[i + 1])

Focusable == {"body", "toggle", "before", "after"} \cup Links

\* Reading a property of a cached reference throws a TypeError when the
\* reference is null.
derefThrows(node) == ~node

PageIdle == [hidden |-> FALSE, willChange |-> "unset", thrown |-> FALSE]

\* ---------------------------------------------------------- mobile menu
\* initMobileMenu registered its listeners (both nodes were cached).
menuListeners == elements.mobileMenu /\ elements.navLinks

\* The menu's listeners read elements.navLinks.classList and
\* elements.mobileMenu without a check of their own.
menuListenerThrows ==
    menuListeners /\ (derefThrows(elements.navLinks) \/ derefThrows(elements.mobileMenu))

\* elements.navLinks?.classList.contains('active')
trapOpen == IF elements.navLinks THEN navActive ELSE FALSE
trapThrows == IF elements.navLinks THEN derefThrows(elements.navLinks) ELSE FALSE

toggleMobileMenuNavOnly(m) == [nav |-> ~m.nav, menu |-> m.menu]
toggleMobileMenu(m) == [nav |-> ~m.nav, menu |-> ~m.menu]

closeMobileMenu(m) == [nav |-> FALSE, menu |-> FALSE]

\* The click listener on elements.navLinks.
navLinksClickAny(m, t) == closeMobileMenu(m)
navLinksClickLowercase(m, t) ==
    IF tagName(t) = "a" THEN closeMobileMenu(m) ELSE m
navLinksClick(m, t) ==
    IF tagName(t) = "A" THEN closeMobileMenu(m) ELSE m

\* The document click listener that closes the menu on outside clicks.
outsideClickNoToggleCheck(m, t) ==
    IF ~navContains(t) /\ m.nav THEN closeMobileMenu(m) ELSE m
outsideClick(m, t) ==
    IF ~navContains(t) /\ ~menuContains(t) /\ m.nav
    THEN closeMobileMenu(m) ELSE m

\* The document click listener of initSmoothScroll.  hash: the target
\* matches a[href^="#"]; exists: querySelector(href) found an element;
\* rectTop: its getBoundingClientRect().top.
smoothScroll(t, hash, exists, rectTop, y) ==
    IF tagName(t) = "A" /\ hash
    THEN [prevented |-> TRUE, scrolled |-> exists,
          top |-> IF exists THEN rectTop + y - headerOffset ELSE 0]
    ELSE [prevented |-> FALSE, scrolled |-> FALSE, top |-> 0]

NoEvent ==
    [kind |-> "none", target |-> "body", shift |-> FALSE, wasOpen |-> FALSE,
     focusBefore |-> "body", prevented |-> FALSE, scrolled |-> FALSE,
     top |-> 0, hash |-> FALSE, exists |-> FALSE, rectTop |-> 0]

\* One click: the target's and its ancestors' listeners, then the
\* document's listeners in registration order.
Click(t, hash, exists, rectTop, focused) ==
    /\ present(t)
    /\ LET m0 == [nav |-> navActive, menu |-> menuActive]
           m1 == IF menuListeners /\ menuContains(t) THEN toggleMobileMenu(m0) ELSE m0
           m2 == IF menuListeners /\ navContains(t) THEN navLinksClick(m1, t) ELSE m1
           m3 == IF menuListeners THEN outsideClick(m2, t) ELSE m2
           s == smoothScroll(t, hash, exists, rectTop, pageYOffset)
       IN  /\ navActive' = m3.nav
           /\ menuActive' = m3.menu
           /\ focus' = IF focused /\ t \in Focusable THEN t ELSE "body"
           /\ last' = [kind |-> "click", target |-> t, shift |-> FALSE,
                       wasOpen |-> navActive, focusBefore |-> focus,
                       prevented |-> s.prevented, scrolled |-> s.scrolled,
                       top |-> s.top, hash |-> tagName(t) = "A" /\ hash,
                       exists |-> exists, rectTop |-> rectTop]
    /\ page' = [page EXCEPT !.thrown = @ \/ menuListenerThrows]
    /\ UNCHANGED <<form, boot, ripple, typing, elements, pageYOffset, ariaExpanded,
                   layout, revealVars, scrollVars>>

ClickEvent ==
    \E t \in ClickTargets, hash, exists, focused \in BOOLEAN, rectTop \in RectTops :
        /\ tagName(t) # "A" => (~hash /\ ~exists /\ rectTop = 0)
        /\ ~hash => (~exists /\ rectTop = 0)
        /\ ~exists => rectTop = 0
        /\ t \notin Focusable => focused
        /\ Click(t, hash, exists, rectTop, focused)

\* The keydown listener of initMobileMenu, key = 'Escape'.
escapeKeyNoFocus(m, f) ==
    IF m.nav THEN [m |-> closeMobileMenu(m), focus |-> f] ELSE [m |-> m, focus |-> f]
escapeKey(m, f) ==
    IF m.nav THEN [m |-> closeMobileMenu(m), focus |-> "toggle"]
    ELSE [m |-> m, focus |-> f]

KeyEscape ==
    /\ LET m0 == [nav |-> navActive, menu |-> menuActive]
           r == IF menuListeners THEN escapeKey(m0, focus) ELSE [m |-> m0, focus |-> focus]
       IN  /\ navActive' = r.m.nav
           /\ menuActive' = r.m.menu
           /\ focus' = r.focus
           /\ last' = [NoEvent EXCEPT !.kind = "escape", !.wasOpen = navActive,
                                      !.focusBefore = focus]
    /\ page' = [page EXCEPT !.thrown = @ \/ menuListenerThrows]
    /\ UNCHANGED <<form, boot, ripple, typing, elements, pageYOffset, ariaExpanded,
                   layout, revealVars, scrollVars>>

\* The focus-trap keydown listener of initAccessibility, key = 'Tab'.
\* querySelectorAll('a')[0] and [length - 1] are the first and last link.
focusTrapNoWrap(open, f, shift) == [prevented |-> FALSE, focus |-> defaultTab(f, shift)]
focusTrap(open, f, shift) ==
    LET firstFocusable == LinkSeq[1]
        lastFocusable == LinkSeq[NumLinks]
    IN  IF open
        THEN IF shift /\ f = firstFocusable
             THEN [prevented |-> TRUE, focus |-> lastFocusable]
             ELSE IF ~shift /\ f = lastFocusable
             THEN [prevented |-> TRUE, focus |-> firstFocusable]
             ELSE [prevented |-> FALSE, focus |-> defaultTab(f, shift)]
        ELSE [prevented |-> FALSE, focus |-> defaultTab(f, shift)]

KeyTab ==
    \E shift \in BOOLEAN :
        /\ LET r == focusTrap(trapOpen, focus, shift)
           IN  /\ focus' = r.focus
               /\ last' = [NoEvent EXCEPT !.kind = "tab", !.shift = shift,
                                          !.wasOpen = navActive, !.focusBefore = focus,
                                          !.prevented = r.prevented]
        /\ page' = [page EXCEPT !.thrown = @ \/ trapThrows]
        /\ UNCHANGED <<form, boot, ripple, typing, elements, pageYOffset, navActive,
                       menuActive, ariaExpanded, layout, revealVars, scrollVars>>

\* -------------------------------------------------- scroll-triggered reveal
RevealEls == 1..NumObserved

\* The body of the observer callback's forEach, for one entry; r holds the
\* observed set, the elements carrying the class and the class-add counts.
revealEntryNoUnobserve(r, entry) ==
    IF entry.isIntersecting
    THEN [observing |-> r.observing,
          visible |-> r.visible \cup {entry.target},
          adds |-> IF entry.target \in r.visible THEN r.adds
                   ELSE [r.adds EXCEPT ![entry.target] = @ + 1]]
    ELSE r
revealEntry(r, entry) ==
    IF entry.isIntersecting
    THEN [observing |-> r.observing \ {entry.target},
          visible |-> r.visible \cup {entry.target},
          adds |-> IF entry.target \in r.visible THEN r.adds
                   ELSE [r.adds EXCEPT ![entry.target] = @ + 1]]
    ELSE r

\* entries.forEach(...)
RECURSIVE revealCallback(_, _)
revealCallback(r, es) ==
    IF es = <<>> THEN r
    ELSE revealCallback(revealEntry(r, Head(es)), Tail(es))

\* observer.observe(el) queues a first entry for el, intersecting or not.
RECURSIVE initialEntries(_, _)
initialEntries(i, inView) ==
    IF i > NumObserved THEN <<>>
    ELSE <<[target |-> i, isIntersecting |-> i \in inView]>>
             \o initialEntries(i + 1, inView)

\* An element enters or leaves the viewport; the observer queues an entry
\* for it only while it is observed.
ViewportChange(e) ==
    /\ Len(entries) < MaxEntries
    /\ inViewport' = IF e \in inViewport THEN inViewport \ {e} ELSE inViewport \cup {e}
    /\ entries' = IF e \in observing
                  THEN Append(entries, [target |-> e, isIntersecting |-> e \notin inViewport])
                  ELSE entries
    /\ UNCHANGED <<extVars, elements, pageYOffset, menuVars, hasIO, observing, visibleClass,
                   classAdds, scrollVars>>

\* The browser delivers the queued entries to the observer callback.
ObserverCallback ==
    /\ entries # <<>>
    /\ LET r == revealCallback([observing |-> observing, visible |-> visibleClass,
                                adds |-> classAdds], entries)
       IN  /\ observing' = r.observing
           /\ visibleClass' = r.visible
           /\ classAdds' = r.adds
    /\ entries' = <<>>
    /\ UNCHANGED <<extVars, elements, pageYOffset, menuVars, hasIO, inViewport, scrollVars>>

\* ----------------------------------------------------------- scroll effects
innerHeight == 800
ScrollOffsets == {0, 100, 400, 900}

\* scrollHandler, reading window.pageYOffset = y.
scrollHandlerUnguarded(s, y) ==
    [show |-> y > showThreshold,
     hero |-> IF y < innerHeight THEN 3 * y ELSE s.hero,
     ticking |-> FALSE,
     err |-> derefThrows(elements.scrollButton)
                 \/ (y < innerHeight /\ derefThrows(elements.heroSection))]
scrollHandler(s, y) ==
    [show |-> IF elements.scrollButton THEN y > showThreshold ELSE s.show,
     hero |-> IF elements.heroSection /\ y < innerHeight THEN 3 * y ELSE s.hero,
     ticking |-> FALSE,
     err |-> \/ (IF elements.scrollButton THEN derefThrows(elements.scrollButton)
                  ELSE FALSE)
             \/ (IF elements.heroSection /\ y < innerHeight
                  THEN derefThrows(elements.heroSection) ELSE FALSE)]

\* The window scroll listener.
ScrollEvent ==
    \E y \in ScrollOffsets \ {pageYOffset} :
        /\ pageYOffset' = y
        /\ IF ~ticking
           THEN /\ rafPending' = rafPending + 1
                /\ ticking' = TRUE
           ELSE UNCHANGED <<rafPending, ticking>>
        /\ UNCHANGED <<extVars, elements, menuVars, revealVars, inThrottle, timerPending,
                       showClass, heroTransform>>

\* An animation frame runs throttledScrollHandler = throttle(scrollHandler, 16).
AnimationFrame ==
    /\ rafPending > 0
    /\ rafPending' = rafPending - 1
    /\ IF ~inThrottle
       THEN LET s == scrollHandler([show |-> showClass, hero |-> heroTransform,
                                    ticking |-> ticking], pageYOffset)
            IN  /\ showClass' = s.show
                /\ heroTransform' = s.hero
                /\ ticking' = s.ticking
                /\ inThrottle' = TRUE
                /\ timerPending' = timerPending + 1
                /\ page' = [page EXCEPT !.thrown = @ \/ s.err]
       ELSE UNCHANGED <<showClass, heroTransform, ticking, inThrottle, timerPending, page>>
    /\ UNCHANGED <<form, boot, ripple, typing, elements, pageYOffset, menuVars, revealVars>>

\* throttle's setTimeout(() => inThrottle = false, limit) fires.
ThrottleTimeout ==
    /\ timerPending > 0
    /\ timerPending' = timerPending - 1
    /\ inThrottle' = FALSE
    /\ UNCHANGED <<extVars, elements, pageYOffset, menuVars, revealVars, ticking, rafPending,
                   showClass, heroTransform>>

\* ------------------------------------------------------------ contact form
\* Strings are sequences of characters.
BoundedSeq(S, n) == UNION {[1..k -> S] : k \in 0..n}

SampleName == <<"J", "a", "n">>
SampleEmail == <<"a", "@", "b", ".", "c", "o">>
SampleBadEmail == <<"n", "o", "t", "-", "a", "n", "-", "e", "m", "a", "i", "l">>

FieldValues == {<<>>, <<" ">>, <<"a">>, SampleName}
EmailValues == BoundedSeq({"a", "@", ".", " "}, MaxEmailLen)
                   \cup {SampleEmail, SampleBadEmail}
\* What the user types between two submits.
FillNames == {<<>>, <<" ">>, SampleName}
FillEmails == {<<>>, SampleEmail, SampleBadEmail}
FillMessages == {<<>>, <<"a">>}

\* The character class [^\s@].
notSpaceOrAt(c) == c \notin {" ", "@"}

\* /^[^\s@]+@[^\s@]+\.[^\s@]+$/.test(s)
emailRegexTest(s) ==
    \E i \in 2..Len(s), j \in 4..Len(s) :
        /\ i + 1 < j
        /\ j < Len(s)
        /\ s[i] = "@"
        /\ s[j] = "."
        /\ \A k \in 1..Len(s) : (k # i /\ k # j) => notSpaceOrAt(s[k])

\* The two validation steps of the submit listener; !x is true of the
\* empty string only.
validate(name, email, message) ==
    IF name = <<>> \/ email = <<>> \/ message = <<>> THEN "missing"
    ELSE IF ~emailRegexTest(email) THEN "invalid"
    ELSE "ok"

NoSubmit ==
    [name |-> <<>>, email |-> <<>>, message |-> <<>>, alerts |-> 0, opacity |-> 10,
     timers |-> 0]

\* The submit listener's early returns: alert(...) and return.
failSubmitResets(f, outcome) ==
    [f EXCEPT !.alerts = @ + 1,
              !.alert = [kind |-> outcome,
                         text |-> IF outcome = "missing" THEN <<"Vul alle velden in.">>
                                  ELSE <<"Voer een geldig e-mailadres in.">>],
              !.name = <<>>, !.email = <<>>, !.message = <<>>]
failSubmit(f, outcome) ==
    [f EXCEPT !.alerts = @ + 1,
              !.alert = [kind |-> outcome,
                         text |-> IF outcome = "missing" THEN <<"Vul alle velden in.">>
                                  ELSE <<"Voer een geldig e-mailadres in.">>]]

\* The submit listener's success path: alert, reset, opacity 0.7, timer.
\* e.target.reset() restores the fields' default values, taken to be empty.
okSubmitNoTimer(f) ==
    [f EXCEPT !.alerts = @ + 1,
              !.alert = [kind |-> "ok",
                         text |-> <<"Dank je wel ">> \o f.name
                                    \o <<"! Je bericht is ontvangen. Ik neem zo spoedig mogelijk contact met je op via ">>
                                    \o f.email \o <<".">>],
              !.name = <<>>, !.email = <<>>, !.message = <<>>,
              !.opacity = 7]
okSubmit(f) ==
    [f EXCEPT !.alerts = @ + 1,
              !.alert = [kind |-> "ok",
                         text |-> <<"Dank je wel ">> \o f.name
                                    \o <<"! Je bericht is ontvangen. Ik neem zo spoedig mogelijk contact met je op via ">>
                                    \o f.email \o <<".">>],
              !.name = <<>>, !.email = <<>>, !.message = <<>>,
              !.opacity = 7,
              !.timers = @ + 1]

\* The submit listener.
submitHandler(f) ==
    LET outcome == validate(f.name, f.email, f.message)
        g == [f EXCEPT !.prevented = TRUE, !.op = "submit",
                       !.submits = @ + 1,
                       !.before = [name |-> f.name, email |-> f.email,
                                   message |-> f.message, alerts |-> f.alerts,
                                   opacity |-> f.opacity, timers |-> f.timers]]
    IN  IF outcome # "ok" THEN failSubmit(g, outcome) ELSE okSubmit(g)

InitFormIdle ==
    [name |-> <<>>, email |-> <<>>, message |-> <<>>, alerts |-> 0,
     alert |-> [kind |-> "none", text |-> <<>>], opacity |-> 10, timers |-> 0,
     prevented |-> FALSE, op |-> "none", submits |-> 0, before |-> NoSubmit]

Submit ==
    /\ form.submits < MaxSubmits
    /\ form' = submitHandler(form)
    /\ UNCHANGED <<elements, pageYOffset, menuVars, revealVars, scrollVars,
                   boot, ripple, typing, page>>

\* The 200 ms timer of a successful submit fires.
OpacityTimeout ==
    /\ form.timers > 0
    /\ form' = [form EXCEPT !.timers = @ - 1, !.opacity = 10, !.op = "timeout"]
    /\ UNCHANGED <<elements, pageYOffset, menuVars, revealVars, scrollVars,
                   boot, ripple, typing, page>>

\* The user dismisses the alert, if any, and edits the fields.
Fill ==
    \E n \in FillNames, e \in FillEmails, m \in FillMessages :
        /\ <<n, e, m>> # <<form.name, form.email, form.message>>
        /\ form' = [form EXCEPT !.name = n, !.email = e, !.message = m, !.op = "fill",
                                !.alert = [kind |-> "none", text |-> <<>>],
                                !.before = NoSubmit]
        /\ UNCHANGED <<elements, pageYOffset, menuVars, revealVars, scrollVars,
                   boot, ripple, typing, page>>

\* ------------------------------------------------------------ ripple effect
\* getBoundingClientRect() of the ripple-enabled controls.
ButtonRects ==
    <<[left |-> 0, top |-> 0, width |-> 40, height |-> 20],
      [left |-> 100, top |-> 50, width |-> 20, height |-> 40],
      [left |-> 10, top |-> 300, width |-> 25, height |-> 25]>>
Buttons == 1..Len(ButtonRects)
\* Click positions relative to the control's box.
ClickOffsets == {<<10, 5>>, <<0, 0>>, <<20, 20>>}

Max(a, b) == IF a >= b THEN a ELSE b

\* The overlay's style, from rect and the click's clientX/clientY; left and
\* top are kept doubled (size / 2 need not be whole).
rippleStyleMin(rect, clientX, clientY) ==
    LET size == IF rect.width <= rect.height THEN rect.width ELSE rect.height
    IN  [width |-> size, height |-> size,
         left2 |-> 2 * (clientX - rect.left) - size,
         top2 |-> 2 * (clientY - rect.top) - size]
rippleStyle(rect, clientX, clientY) ==
    LET size == Max(rect.width, rect.height)
    IN  [width |-> size, height |-> size,
         left2 |-> 2 * (clientX - rect.left) - size,
         top2 |-> 2 * (clientY - rect.top) - size]

\* The click listener of a ripple-enabled control: one new overlay appended
\* to the control, one 600 ms timer for it.
rippleClick(r, button, clientX, clientY) ==
    LET id == r.made + 1
        rect == ButtonRects[button]
    IN  [r EXCEPT !.made = id,
                  !.clicks = @ + 1,
                  !.attached = @ \cup {[id |-> id, parent |-> button]},
                  !.timers = Append(@, id),
                  !.op = "click",
                  !.last = [id |-> id, parent |-> button, rect |-> rect,
                            clientX |-> clientX, clientY |-> clientY,
                            style |-> rippleStyle(rect, clientX, clientY)]]

\* The timer callback of overlay id: if (ripple.parentNode) ripple.remove().
rippleRemoveNever(r, id) ==
    [r EXCEPT !.timers = Tail(@), !.op = "timeout"]
rippleRemove(r, id) ==
    [r EXCEPT !.attached = {o \in @ : o.id # id}, !.timers = Tail(@),
              !.op = "timeout"]

NoRipple ==
    [id |-> 0, parent |-> 1, rect |-> ButtonRects[1], clientX |-> 0, clientY |-> 0,
     style |-> [width |-> 0, height |-> 0, left2 |-> 0, top2 |-> 0]]

RippleIdle ==
    [made |-> 0, clicks |-> 0, attached |-> {}, timers |-> <<>>, op |-> "none",
     last |-> NoRipple]

RippleClick ==
    \E b \in Buttons, off \in ClickOffsets :
        /\ ripple.clicks < MaxRipples
        /\ ripple' = rippleClick(ripple, b, ButtonRects[b].left + off[1],
                                 ButtonRects[b].top + off[2])
        /\ UNCHANGED <<elements, pageYOffset, menuVars, revealVars, scrollVars,
                       form, boot, typing, page>>

\* Timers of equal delay fire in the order they were set.
RippleTimeout ==
    /\ ripple.timers # <<>>
    /\ ripple' = rippleRemove(ripple, Head(ripple.timers))
    /\ UNCHANGED <<elements, pageYOffset, menuVars, revealVars, scrollVars,
                   form, boot, typing, page>>

\* Something else on the page detaches an overlay before its timer fires.
RippleDetached ==
    \E o \in ripple.attached :
        /\ ripple' = [ripple EXCEPT !.attached = @ \ {o}, !.op = "detach"]
        /\ UNCHANGED <<elements, pageYOffset, menuVars, revealVars, scrollVars,
                       form, boot, typing, page>>

\* ------------------------------------------------------------ typing effect
\* The hero title's content is a sequence of units: a character or "BR",
\* a <br> element.
TitleChars == {"a", "b"}
Titles == BoundedSeq(TitleChars \cup {"BR"}, MaxTitleLen)
BrTag == <<"<", "b", "r", ">">>

\* element.innerHTML, as a string.
RECURSIVE innerHTML(_)
innerHTML(content) ==
    IF content = <<>> THEN <<>>
    ELSE (IF Head(content) = "BR" THEN BrTag ELSE <<Head(content)>>)
             \o innerHTML(Tail(content))

\* String.prototype.replace with a string pattern: the first match only.
replace(str, pattern, by) ==
    LET hits == {i \in 1..(Len(str) - Len(pattern) + 1) :
                     SubSeq(str, i, i + Len(pattern) - 1) = pattern}
    IN  IF hits = {} THEN str
        ELSE LET i == CHOOSE h \in hits : \A g \in hits : h <= g
             IN  SubSeq(str, 1, i - 1) \o by
                     \o SubSeq(str, i + Len(pattern), Len(str))

\* type(): element.innerHTML += '<br>' for '\n', += the character otherwise
\* (a lone '<' or '>' is parsed as text); then i++ and setTimeout(type, speed).
type(t) ==
    IF t.i < Len(t.text)
    THEN LET c == t.text[t.i + 1]
         IN  [t EXCEPT !.content = Append(@, IF c = "\n" THEN "BR" ELSE c),
                       !.i = @ + 1, !.timer = "tick", !.revealed = 1, !.op = "type"]
    ELSE [t EXCEPT !.timer = "none", !.revealed = 0, !.op = "type"]

\* typeWriter(element, text, speed): empty the element, then the first type().
typeWriter(t) ==
    type([t EXCEPT !.content = <<>>, !.i = 0, !.chains = @ + 1, !.pc = "typing"])

\* initTypingEffect: read the title, turn <br> into '\n', set the 500 ms timer.
initTypingEffect(t) ==
    IF ~elements.heroTitle THEN [t EXCEPT !.pc = "absent"]
    ELSE [t EXCEPT !.text = replace(innerHTML(t.content), BrTag, <<"\n">>),
                   !.timer = "start", !.pc = "waiting"]

TypingIdle ==
    [original |-> <<>>, content |-> <<>>, text |-> <<>>, i |-> 0, timer |-> "none",
     chains |-> 0, revealed |-> 0, pc |-> "idle", op |-> "none"]

\* The 500 ms timer set by initTypingEffect fires.
TypingStart ==
    /\ typing.timer = "start"
    /\ typing' = typeWriter(typing)
    /\ UNCHANGED <<elements, pageYOffset, menuVars, revealVars, scrollVars,
                   form, boot, ripple, page>>

\* A setTimeout(type, speed) timer fires.
TypeTick ==
    /\ typing.timer = "tick"
    /\ typing' = type(typing)
    /\ UNCHANGED <<elements, pageYOffset, menuVars, revealVars, scrollVars,
                   form, boot, ripple, page>>

\* ------------------------------------------------------------------ init()
\* The initializers init() passes to safeExecute, in call order.
Initializers ==
    <<"cacheElements", "initMobileMenu", "initSmoothScroll", "initScrollAnimations",
      "initScrollEffects", "initScrollToTop", "initFormHandling", "initRippleEffect",
      "initHoverEffects", "initLazyLoading", "initAccessibility",
      "initPerformanceMonitoring">>

AllInitializers == {Initializers[i] : i \in 1..Len(Initializers)} \cup {"initTypingEffect"}

\* safeExecute(fn, context): b.throws holds the initializers that throw.
safeExecuteRethrows(b, context) ==
    IF context \in b.throws
    THEN [b EXCEPT !.invoked = Append(@, context), !.uncaught = TRUE]
    ELSE [b EXCEPT !.invoked = Append(@, context)]
safeExecute(b, context) ==
    IF context \in b.throws
    THEN [b EXCEPT !.invoked = Append(@, context), !.warnings = Append(@, context)]
    ELSE [b EXCEPT !.invoked = Append(@, context)]

\* The safeExecute calls of init(), from the i-th on; an uncaught exception
\* ends init().
RECURSIVE runInitializers(_, _)
runInitializers(b, i) ==
    IF i > Len(Initializers) \/ b.uncaught THEN b
    ELSE runInitializers(safeExecute(b, Initializers[i]), i + 1)

\* init(): the twelve calls, then setTimeout(..., 100) for the typing effect.
init(b) ==
    LET r == runInitializers(b, 1)
    IN  IF r.uncaught THEN [r EXCEPT !.pc = "thrown"]
        ELSE [r EXCEPT !.pc = "done", !.typingTimer = "pending"]

BootIdle ==
    [pc |-> "start", throws |-> {}, invoked |-> <<>>, warnings |-> <<>>,
     uncaught |-> FALSE, typingTimer |-> "none"]

\* DOMContentLoaded (or the script itself) calls init().
RunInit ==
    /\ boot.pc = "start"
    /\ boot' = init(boot)
    /\ UNCHANGED <<elements, pageYOffset, menuVars, revealVars, scrollVars,
                   form, ripple, typing, page>>

\* The 100 ms timer set by init() fires, after init() has returned.
TypingInitTimeout ==
    /\ boot.typingTimer = "pending"
    /\ boot' = [safeExecute(boot, "initTypingEffect") EXCEPT !.typingTimer = "fired"]
    /\ typing' = IF "initTypingEffect" \in boot.throws THEN typing
                 ELSE initTypingEffect(typing)
    /\ UNCHANGED <<elements, pageYOffset, menuVars, revealVars, scrollVars,
                   form, ripple, page>>

\* ------------------------------------------------------- visibility change
\* The visibilitychange listener: elements.heroSection?.style.setProperty(...).
visibilityChange(pg, hidden) ==
    [pg EXCEPT !.hidden = hidden,
               !.willChange = IF elements.heroSection
                              THEN (IF hidden THEN "auto" ELSE "transform")
                              ELSE @,
               !.thrown = @ \/ (IF elements.heroSection
                                THEN derefThrows(elements.heroSection) ELSE FALSE)]

VisibilityChange ==
    /\ page' = visibilityChange(page, ~page.hidden)
    /\ UNCHANGED <<elements, pageYOffset, menuVars, revealVars, scrollVars,
                   form, boot, ripple, typing>>

\* A click or key press whose target is not an in-page anchor link.
PlainClickEvent ==
    \E t \in ClickTargets : Click(t, FALSE, FALSE, 0, TRUE)

\* Initializers that read a property of a null cached reference, given the
\* guards they start with.
nullThrowers ==
    {n \in {"initMobileMenu"} : menuListenerThrows}
        \cup {n \in {"initScrollToTop"} :
                  IF ~elements.scrollButton THEN FALSE
                  ELSE derefThrows(elements.scrollButton)}
        \cup {n \in {"initTypingEffect"} :
                  IF ~elements.heroTitle THEN FALSE
                  ELSE derefThrows(elements.heroTitle)}

\* ---------------------------------------------------------------- states
InitExt ==
    /\ form = InitFormIdle
    /\ boot = BootIdle
    /\ ripple = RippleIdle
    /\ typing = TypingIdle
    /\ page = PageIdle

InitRest ==
    /\ InitExt
    /\ hasIO = FALSE
    /\ observing = {}
    /\ visibleClass = {}
    /\ inViewport = {}
    /\ entries = <<>>
    /\ classAdds = [e \in 1..NumObserved |-> 0]
    /\ ticking = FALSE
    /\ inThrottle = FALSE
    /\ rafPending = 0
    /\ timerPending = 0
    /\ showClass = FALSE
    /\ heroTransform = -1

\* The page after init(), for the click and keydown handlers.
InitMenu ==
    /\ elements \in {[mobileMenu |-> a, navLinks |-> b, scrollButton |-> TRUE,
                      heroSection |-> TRUE, heroTitle |-> TRUE] : a, b \in BOOLEAN}
    /\ navActive = FALSE
    /\ menuActive = FALSE
    /\ ariaExpanded \in {"absent", "false"}
    /\ focus = "body"
    /\ layout \in {"toggleFirst", "toggleLast"}
    /\ pageYOffset \in PageOffsets
    /\ last = NoEvent
    /\ InitRest

NextMenu == ClickEvent \/ KeyEscape \/ KeyTab

SpecMenu == InitMenu /\ [][NextMenu]_vars

InitMenuRest ==
    /\ navActive = FALSE
    /\ menuActive = FALSE
    /\ ariaExpanded = "false"
    /\ focus = "body"
    /\ layout = "toggleFirst"
    /\ last = NoEvent

\* The page after init(), for the reveal observer.
InitReveal ==
    /\ elements = [mobileMenu |-> TRUE, navLinks |-> TRUE, scrollButton |-> TRUE,
                   heroSection |-> TRUE, heroTitle |-> TRUE]
    /\ pageYOffset = 0
    /\ InitMenuRest
    /\ hasIO \in BOOLEAN
    /\ inViewport \in SUBSET RevealEls
    /\ observing = IF hasIO THEN RevealEls ELSE {}
    /\ visibleClass = {}
    /\ entries = IF hasIO THEN initialEntries(1, inViewport) ELSE <<>>
    /\ classAdds = [e \in RevealEls |-> 0]
    /\ InitExt
    /\ ticking = FALSE
    /\ inThrottle = FALSE
    /\ rafPending = 0
    /\ timerPending = 0
    /\ showClass = FALSE
    /\ heroTransform = -1

NextReveal == (\E e \in RevealEls : ViewportChange(e)) \/ ObserverCallback

SpecReveal == InitReveal /\ [][NextReveal]_vars

\* The page after init(), for the scroll listener.
InitScroll ==
    /\ elements \in {[mobileMenu |-> TRUE, navLinks |-> TRUE, scrollButton |-> a,
                      heroSection |-> b, heroTitle |-> TRUE] : a, b \in BOOLEAN}
    /\ pageYOffset = 0
    /\ InitMenuRest
    /\ InitRest

NextScroll == ScrollEvent \/ AnimationFrame \/ ThrottleTimeout

SpecScroll == InitScroll /\ [][NextScroll]_vars


\* The page after init(), apart from the contact form.
InitFormPage ==
    /\ elements = [mobileMenu |-> TRUE, navLinks |-> TRUE, scrollButton |-> TRUE,
                   heroSection |-> TRUE, heroTitle |-> TRUE]
    /\ pageYOffset = 0
    /\ InitMenuRest
    /\ hasIO = FALSE
    /\ observing = {}
    /\ visibleClass = {}
    /\ inViewport = {}
    /\ entries = <<>>
    /\ classAdds = [e \in RevealEls |-> 0]
    /\ ticking = FALSE
    /\ inThrottle = FALSE
    /\ rafPending = 0
    /\ timerPending = 0
    /\ showClass = FALSE
    /\ heroTransform = -1
    /\ boot = BootIdle
    /\ ripple = RippleIdle
    /\ typing = TypingIdle
    /\ page = PageIdle

\* The contact form filled in by the user with any bounded field values.
InitForm ==
    /\ InitFormPage
    /\ \E n \in FieldValues, e \in EmailValues, m \in FieldValues :
           form = [InitFormIdle EXCEPT !.name = n, !.email = e, !.message = m]

NextForm == Submit \/ OpacityTimeout \/ Fill

SpecForm == InitForm /\ [][NextForm]_vars

\* The same page with the fields drawn from what the user types between
\* submits; timers that are due fire.
InitFormTyped ==
    /\ InitFormPage
    /\ \E n \in FillNames, e \in FillEmails, m \in FillMessages :
           form = [InitFormIdle EXCEPT !.name = n, !.email = e, !.message = m]

SpecFormFair == InitFormTyped /\ [][NextForm]_vars /\ WF_vars(OpacityTimeout)

\* The page before init() runs; any subset of the initializers throws.
InitBoot ==
    /\ elements = [mobileMenu |-> TRUE, navLinks |-> TRUE, scrollButton |-> TRUE,
                   heroSection |-> TRUE, heroTitle |-> TRUE]
    /\ pageYOffset = 0
    /\ InitMenuRest
    /\ hasIO = FALSE
    /\ observing = {}
    /\ visibleClass = {}
    /\ inViewport = {}
    /\ entries = <<>>
    /\ classAdds = [e \in RevealEls |-> 0]
    /\ ticking = FALSE
    /\ inThrottle = FALSE
    /\ rafPending = 0
    /\ timerPending = 0
    /\ showClass = FALSE
    /\ heroTransform = -1
    /\ form = InitFormIdle
    /\ \E t \in SUBSET AllInitializers : boot = [BootIdle EXCEPT !.throws = t]
    /\ ripple = RippleIdle
    /\ typing = TypingIdle
    /\ page = PageIdle

NextBoot == RunInit \/ TypingInitTimeout

SpecBoot == InitBoot /\ [][NextBoot]_vars

\* The page after init(), for the ripple-enabled controls.
InitRipple ==
    /\ InitFormPage
    /\ form = InitFormIdle

NextRipple == RippleClick \/ RippleTimeout \/ RippleDetached

SpecRipple == InitRipple /\ [][NextRipple]_vars

\* The page before init() runs, with any bounded hero title, present or not.
InitTyping ==
    /\ elements \in {[mobileMenu |-> TRUE, navLinks |-> TRUE, scrollButton |-> TRUE,
                      heroSection |-> TRUE, heroTitle |-> a] : a \in BOOLEAN}
    /\ pageYOffset = 0
    /\ InitMenuRest
    /\ hasIO = FALSE
    /\ observing = {}
    /\ visibleClass = {}
    /\ inViewport = {}
    /\ entries = <<>>
    /\ classAdds = [e \in RevealEls |-> 0]
    /\ ticking = FALSE
    /\ inThrottle = FALSE
    /\ rafPending = 0
    /\ timerPending = 0
    /\ showClass = FALSE
    /\ heroTransform = -1
    /\ form = InitFormIdle
    /\ boot = BootIdle
    /\ ripple = RippleIdle
    /\ \E c \in Titles : typing = [TypingIdle EXCEPT !.original = c, !.content = c]
    /\ page = PageIdle

NextTyping == RunInit \/ TypingInitTimeout \/ TypingStart \/ TypeTick

SpecTyping == InitTyping /\ [][NextTyping]_vars

\* The page right after init() returned, with any subset of the five cached
\* elements missing from the markup.
InitMissing ==
    /\ elements \in [{"mobileMenu", "navLinks", "scrollButton", "heroSection",
                      "heroTitle"} -> BOOLEAN]
    /\ pageYOffset = 0
    /\ InitMenuRest
    /\ hasIO = FALSE
    /\ observing = {}
    /\ visibleClass = {}
    /\ inViewport = {}
    /\ entries = <<>>
    /\ classAdds = [e \in RevealEls |-> 0]
    /\ ticking = FALSE
    /\ inThrottle = FALSE
    /\ rafPending = 0
    /\ timerPending = 0
    /\ showClass = FALSE
    /\ heroTransform = -1
    /\ form = InitFormIdle
    /\ boot = init([BootIdle EXCEPT !.throws = nullThrowers])
    /\ ripple = RippleIdle
    /\ typing = [TypingIdle EXCEPT !.original = <<"a">>, !.content = <<"a">>]
    /\ page = PageIdle

NextMissing ==
    \/ PlainClickEvent
    \/ KeyEscape
    \/ KeyTab
    \/ ScrollEvent
    \/ AnimationFrame
    \/ ThrottleTimeout
    \/ VisibilityChange
    \/ TypingInitTimeout

SpecMissing == InitMissing /\ [][NextMissing]_vars

\* ------------------------------------------------- claims: mobile menu
\* C1: the menu starts closed, and one click on the toggle (or on its icon),
\* dispatched to the toggle's listener and to both document click listeners,
\* leaves the menu in the opposite state of the one it was in.
C1_ToggleClickFlipsOnce ==
    /\ last.kind = "none" => ~navActive
    /\ (menuListeners /\ last.kind = "click" /\ menuContains(last.target))
           => navActive = ~last.wasOpen

C1_Witness ==
    /\ menuListeners
    /\ last.kind = "click"
    /\ last.target = "toggle"
    /\ last.wasOpen
    /\ ~navActive

\* C2: after a click on a link of the menu the menu is closed, whether it was
\* open or already closed before the click.
C2_LinkClickCloses ==
    (last.kind = "click" /\ last.target \in Links) => ~navActive

C2_Witness ==
    /\ last.kind = "click"
    /\ last.target \in Links
    /\ last.wasOpen
    /\ ~navActive

\* C3: Escape with the menu open closes it and focuses the toggle; Escape with
\* the menu closed changes neither the menu state nor the focused element.
C3_EscapeClosesAndFocusesToggle ==
    last.kind = "escape" =>
        /\ ~navActive
        /\ focus = IF last.wasOpen THEN "toggle" ELSE last.focusBefore

C3_Witness ==
    /\ last.kind = "escape"
    /\ last.wasOpen
    /\ last.focusBefore \in Links
    /\ focus = "toggle"
    /\ ~navActive

\* C4: a click outside both the menu container and the toggle leaves the menu
\* closed (closing it when it was open); a click on a non-link inside the
\* container leaves an open menu open.
C4_OutsideClickCloses ==
    /\ (last.kind = "click" /\ ~navContains(last.target) /\ ~menuContains(last.target))
           => ~navActive
    /\ (last.kind = "click" /\ last.target = "navItem" /\ last.wasOpen)
           => navActive

C4_Witness ==
    /\ last.kind = "click"
    /\ last.target \in {"outside", "anchor"}
    /\ last.wasOpen
    /\ ~navActive

\* C5: with the menu open, Tab on the last link focuses the first link and
\* Shift+Tab on the first link focuses the last link; with the menu closed the
\* Tab key is never intercepted (its default is not prevented).
C5_TabWrapsAtEdges ==
    last.kind = "tab" =>
        /\ (last.wasOpen /\ ~last.shift /\ last.focusBefore = LinkSeq[NumLinks])
               => (focus = LinkSeq[1] /\ last.prevented)
        /\ (last.wasOpen /\ last.shift /\ last.focusBefore = LinkSeq[1])
               => (focus = LinkSeq[NumLinks] /\ last.prevented)
        /\ ~last.wasOpen => ~last.prevented

C5_Witness ==
    /\ last.kind = "tab"
    /\ last.wasOpen
    /\ ~last.shift
    /\ last.focusBefore = LinkSeq[NumLinks]
    /\ focus = LinkSeq[1]

\* C6: with the menu open, after any Tab or Shift+Tab key press the focused
\* element is one of the menu's links, whatever element had focus before.
C6_TabConfinedToMenu ==
    (last.kind = "tab" /\ navActive) => focus \in Links

\* C7: the toggle's aria-expanded attribute is true exactly when the menu is open.
C7_ExpandedTracksOpen ==
    (ariaExpanded = "true") <=> navActive

\* C8: a click on an in-page anchor link prevents the default and requests a
\* scroll to (target position - headerOffset) when the target exists, and does
\* neither when the target does not exist.
C8_SmoothScrollOrFallThrough ==
    (last.kind = "click" /\ last.hash) =>
        IF last.exists
        THEN /\ last.prevented
             /\ last.scrolled
             /\ last.top = last.rectTop + pageYOffset - headerOffset
        ELSE /\ ~last.prevented
             /\ ~last.scrolled

\* ------------------------------------------------------ claims: reveal
entryTargets == {entries[i].target : i \in 1..Len(entries)}

\* C9: over any sequence of viewport enter/leave events, for every element
\* registered with the reveal observer: the callback that handles an
\* intersecting entry applies the class and unobserves the element in the same
\* step; the class goes from absent to present at most once; once unobserved,
\* no entry is queued for the element again; the class is never removed.
C9_RevealAtMostOnce ==
    /\ [](\A e \in RevealEls :
            /\ classAdds[e] <= 1
            /\ e \in visibleClass => e \notin observing
            /\ (hasIO /\ e \notin observing) =>
                   (e \in visibleClass /\ e \notin entryTargets))
    /\ [][/\ visibleClass \subseteq visibleClass'
          /\ \A i \in 1..Len(entries) :
                 (entries' = <<>> /\ entries[i].isIntersecting) =>
                     /\ entries[i].target \in visibleClass'
                     /\ entries[i].target \notin observing']_vars

C9_Witness ==
    \E e \in RevealEls :
        /\ e \in visibleClass
        /\ classAdds[e] = 1
        /\ e \notin observing
        /\ e \notin inViewport
        /\ entries = <<>>

\* ------------------------------------------------------ claims: scroll
\* C10: at most one animation-frame callback is pending at any time, and the
\* pending-frame flag is cleared whenever the scheduled callback has run: the
\* flag is set only while a callback is pending.
C10_TickingClearedByFrame ==
    /\ rafPending <= 1
    /\ ticking => rafPending = 1

\* C19: once scrolling has stopped and every scheduled frame and timer has
\* run, the scroll-to-top control carries its visibility class exactly when
\* the final scroll offset exceeds showThreshold (the last scroll event was
\* followed by a run of the visual update).
C19_FinalOffsetDecidesShow ==
    (rafPending = 0 /\ timerPending = 0 /\ elements.scrollButton)
        => (showClass <=> pageYOffset > showThreshold)

\* ------------------------------------------- claims: menu class agreement
\* C20: in every state reached by toggle clicks, link clicks, Escape presses
\* and outside clicks, 'active' is on the menu container exactly when it is on
\* the toggle control.
C20_ActiveClassesAgree ==
    navActive <=> menuActive

C20_Witness ==
    /\ navActive
    /\ menuActive
    /\ last.kind = "click"
    /\ menuContains(last.target)

\* ------------------------------------------------- claims: contact form
RECURSIVE trimLeft(_)
trimLeft(s) == IF s # <<>> /\ Head(s) = " " THEN trimLeft(Tail(s)) ELSE s

RECURSIVE trimRight(_)
trimRight(s) ==
    IF s # <<>> /\ s[Len(s)] = " " THEN trimRight(SubSeq(s, 1, Len(s) - 1)) ELSE s

trim(s) == trimRight(trimLeft(s))

\* local@domain.tld: no whitespace, exactly one '@' with a non-empty local
\* part before it, and after it a '.' with something on both sides.
wellFormedEmail(s) ==
    /\ \A k \in 1..Len(s) : s[k] # " "
    /\ Cardinality({k \in 1..Len(s) : s[k] = "@"}) = 1
    /\ LET at == CHOOSE k \in 1..Len(s) : s[k] = "@"
       IN  /\ at > 1
           /\ \E d \in (at + 2)..(Len(s) - 1) : s[d] = "."

expectedOutcome(name, email, message) ==
    IF trim(name) = <<>> \/ trim(email) = <<>> \/ trim(message) = <<>> THEN "missing"
    ELSE IF ~wellFormedEmail(email) THEN "invalid"
    ELSE "ok"

\* C11: for every combination of name, email and message, the outcome of a
\* submit is 'missing field' when any of the three is empty after trimming,
\* else 'invalid email' when the email is not of the form local@domain.tld,
\* else accepted.
C11_ValidationOutcome ==
    form.op = "submit" =>
        form.alert.kind
            = expectedOutcome(form.before.name, form.before.email, form.before.message)

contains(sub, s) ==
    \E i \in 0..(Len(s) - Len(sub)) : SubSeq(s, i + 1, i + Len(sub)) = sub

\* C12: after a submit that fails validation exactly one more alert has been
\* shown, it is not the acknowledgment, the fields, the opacity and the
\* pending timers are what they were, and the default submission is prevented.
C12_FailedSubmitChangesNothing ==
    (form.op = "submit" /\ form.alert.kind # "ok") =>
        /\ form.alerts = form.before.alerts + 1
        /\ form.alert.kind \in {"missing", "invalid"}
        /\ form.name = form.before.name
        /\ form.email = form.before.email
        /\ form.message = form.before.message
        /\ form.opacity = form.before.opacity
        /\ form.timers = form.before.timers
        /\ form.prevented

C12_Witness ==
    /\ form.op = "submit"
    /\ form.alert.kind = "invalid"
    /\ form.before.name # <<>>
    /\ form.email = form.before.email
    /\ form.before.opacity = 7
    /\ form.timers = 1

\* C13: after a valid submit the acknowledgment contains the submitted name
\* and the submitted email, the three fields are empty and the opacity is 0.7;
\* whenever the opacity is 0.7 a timer is pending, and the opacity eventually
\* returns to 1, also when valid submits overlap.
C13_AckResetAndOpacityRestored ==
    /\ []((form.op = "submit" /\ form.alert.kind = "ok") =>
              /\ contains(form.before.name, form.alert.text)
              /\ contains(form.before.email, form.alert.text)
              /\ form.name = <<>>
              /\ form.email = <<>>
              /\ form.message = <<>>
              /\ form.opacity = 7)
    /\ [](form.opacity = 7 => form.timers > 0)
    /\ ((form.opacity = 7) ~> (form.opacity = 10))

C13_Witness ==
    /\ form.op = "submit"
    /\ form.alert.kind = "ok"
    /\ form.before.name = SampleName
    /\ form.before.email = SampleEmail
    /\ form.timers = 2
    /\ form.opacity = 7

\* ------------------------------------------------------- claims: init()
RECURSIVE throwing(_, _)
throwing(names, throws) ==
    IF names = <<>> THEN <<>>
    ELSE (IF Head(names) \in throws THEN <<Head(names)>> ELSE <<>>)
             \o throwing(Tail(names), throws)

\* C14: whichever initializers throw, init() does not throw, has invoked
\* every initializer exactly once in the fixed order and has scheduled the
\* typing initializer, which is invoked when its timer fires; the warnings are
\* exactly the failing initializers' names, one each, in call order.
C14_InitIsolation ==
    /\ boot.pc # "thrown"
    /\ ~boot.uncaught
    /\ (boot.pc = "done" /\ boot.typingTimer = "pending") =>
           /\ boot.invoked = Initializers
           /\ boot.warnings = throwing(Initializers, boot.throws)
    /\ boot.pc = "done" =>
           boot.typingTimer \in {"pending", "fired"}
    /\ boot.typingTimer = "fired" =>
           /\ boot.invoked = Append(Initializers, "initTypingEffect")
           /\ boot.warnings
                  = throwing(Append(Initializers, "initTypingEffect"), boot.throws)

C14_Witness ==
    /\ boot.typingTimer = "fired"
    /\ {"cacheElements", "initAccessibility", "initTypingEffect"} \subseteq boot.throws
    /\ Len(boot.warnings) = Cardinality(boot.throws)
    /\ Len(boot.invoked) = Len(Initializers) + 1

\* ---------------------------------------------- claims: missing elements
\* C15: with any subset of the five cached elements missing, init() ends
\* with no initializer having failed, the menu registers no listeners unless
\* both of its nodes are present, and no click, key press, scroll frame or
\* visibility change throws or changes the state of a feature whose element
\* is missing.
C15_MissingElementsAreNoOps ==
    /\ boot.pc = "done"
    /\ ~boot.uncaught
    /\ boot.warnings = <<>>
    /\ ~page.thrown
    /\ ~(elements.mobileMenu /\ elements.navLinks) =>
           /\ ~menuListeners
           /\ ~navActive
           /\ ~menuActive
           /\ ariaExpanded = "false"
    /\ ~elements.scrollButton => ~showClass
    /\ ~elements.heroSection =>
           /\ heroTransform = -1
           /\ page.willChange = "unset"
    /\ ~elements.heroTitle =>
           /\ typing.pc \in {"idle", "absent"}
           /\ typing.timer = "none"
           /\ typing.chains = 0
           /\ typing.content = typing.original

C15_Witness ==
    /\ ~elements.mobileMenu
    /\ ~elements.scrollButton
    /\ ~elements.heroSection
    /\ ~elements.heroTitle
    /\ last.kind = "click"
    /\ last.target = "navItem"
    /\ pageYOffset = 400
    /\ rafPending = 0
    /\ inThrottle
    /\ page.hidden
    /\ boot.typingTimer = "fired"

\* ------------------------------------------------------- claims: ripple
timerIds == {ripple.timers[i] : i \in 1..Len(ripple.timers)}

\* C16: each click on a ripple-enabled control creates exactly one overlay,
\* a child of that control; every attached overlay has a timer of its own
\* pending, so once all timers have fired no overlay remains; a timer whose
\* overlay is already detached removes nothing.
C16_OverlaysRemovedByOwnTimer ==
    /\ [](/\ ripple.made = ripple.clicks
          /\ \A o \in ripple.attached : o.id \in timerIds
          /\ ripple.timers = <<>> => ripple.attached = {}
          /\ ripple.op = "click" =>
                 /\ Cardinality({o \in ripple.attached : o.id = ripple.last.id}) = 1
                 /\ [id |-> ripple.last.id, parent |-> ripple.last.parent]
                        \in ripple.attached)
    /\ [][(/\ ripple.timers # <<>>
           /\ ripple'.timers = Tail(ripple.timers)
           /\ Head(ripple.timers) \notin {o.id : o \in ripple.attached})
              => ripple'.attached = ripple.attached]_vars
    /\ [][(ripple.timers # <<>> /\ ripple'.timers = Tail(ripple.timers))
              => ripple'.attached
                     = {o \in ripple.attached : o.id # Head(ripple.timers)}]_vars

C16_Witness ==
    /\ ripple.op = "timeout"
    /\ ripple.clicks >= 2
    /\ Cardinality(ripple.attached) >= 1
    /\ Len(ripple.timers) = Cardinality(ripple.attached) + 1

\* C17: for a control of width w and height h clicked at offset (cx, cy) from
\* its box, the overlay is a square of side max(w, h) whose centre is at
\* (cx, cy); a 40x20 control clicked at (10, 5) gets a 40x40 overlay with
\* left = -10 and top = -15.
C17_RippleGeometry ==
    ripple.op = "click" =>
        LET g == ripple.last
            cx == g.clientX - g.rect.left
            cy == g.clientY - g.rect.top
            side == IF g.rect.width >= g.rect.height THEN g.rect.width
                    ELSE g.rect.height
        IN  /\ g.style.width = side
            /\ g.style.height = side
            /\ g.style.left2 + side = 2 * cx
            /\ g.style.top2 + side = 2 * cy
            /\ (g.rect.width = 40 /\ g.rect.height = 20 /\ cx = 10 /\ cy = 5) =>
                   (g.style.width = 40 /\ g.style.left2 = -20 /\ g.style.top2 = -30)

C17_Witness ==
    /\ ripple.op = "click"
    /\ ripple.last.rect.width = 40
    /\ ripple.last.rect.height = 20
    /\ ripple.last.clientX - ripple.last.rect.left = 10
    /\ ripple.last.clientY - ripple.last.rect.top = 5
    /\ ripple.last.style = [width |-> 40, height |-> 40, left2 |-> -20, top2 |-> -30]

\* ------------------------------------------------------- claims: typing
isPrefix(p, q) == Len(p) <= Len(q) /\ SubSeq(q, 1, Len(p)) = p

\* C18: the typing initializer runs after the other initializers and starts
\* at most one chain; once typing has started the displayed content is a
\* prefix of the original content (a line break being one unit), a tick
\* reveals at most one unit, the chain is rescheduled only by a tick that
\* revealed one, and when no timer is left the displayed content is the
\* original content.
C18_TypingRevealsOriginal ==
    /\ typing.chains <= 1
    /\ typing.pc # "idle" => isPrefix(Initializers, boot.invoked)
    /\ typing.pc = "typing" =>
           /\ isPrefix(typing.content, typing.original)
           /\ typing.revealed <= 1
           /\ typing.timer = "tick" => typing.revealed = 1
           /\ typing.timer = "none" => typing.content = typing.original

====
